---- MODULE Spec2Model ----
(***************************************************************************)
(* Elephantasm persistence layer: Spirits (owner entity) and Events        *)
(* (dependent entity), the domain operations over them and the per-request *)
(* unit of work (get_db) that commits or rolls back their writes.          *)
(*                                                                         *)
(* Conventions.  An optional value is a sequence of length at most one:    *)
(* None is <<>> and Some(v) is <<v>>.  importance_score is counted in      *)
(* tenths (10 stands for 1.0).  A content string is the pair of its first  *)
(* 100 characters and the rest.  Identifiers are small naturals (the       *)
(* store generates them; they are opaque to the program).                  *)
(***************************************************************************)
EXTENDS Integers, Sequences, FiniteSets, TLC

VARIABLES
    spirits,    \* committed rows of table "spirits": id -> row
    events,     \* committed rows of table "events": id -> row
    clock,      \* the server's clock (datetime.now / created_at)
    req         \* the units of work: request -> record

vars == <<spirits, events, clock, req>>

----------------------------------------------------------------------------
(* Bounds of the model *)

MaxSpirits == 2
MaxEvents == 3
NReq == 2

SpiritIds == 1..MaxSpirits
EventIds == 1..MaxEvents
\* ids a caller may name: one more than can exist, so that one never resolves
SpiritRefs == 1..(MaxSpirits + 1)
EventRefs == 1..(MaxEvents + 1)

----------------------------------------------------------------------------
(* Optional values and Python truthiness *)

None == <<>>
Some(v) == <<v>>
Val(x) == x[1]

\* `if s` on an optional str: neither None nor the empty string
TruthyStr(x) == x # None /\ Val(x) # ""
\* `if k` on an optional dedupe key (a key is a tuple of symbols)
TruthyKey(x) == x # None /\ Val(x) # <<>>

----------------------------------------------------------------------------
(* Schema: models/database/spirits.py, models/database/events.py *)

SpiritNotNull == {"name", "is_deleted"}
EventNotNull == {"spirit_id", "event_type", "content", "is_deleted"}
\* columns declared unique: only the primary keys are
EventUniqueColumns == {"id"}

\* TimestampMixin.created_at: the server's timestamp of the INSERT, which no
\* two rows share
TimestampMixin_created_at == clock

NotNullOf(table) == IF table = "spirits" THEN SpiritNotNull ELSE EventNotNull

----------------------------------------------------------------------------
(* Pending writes of a session and the outcome of a domain operation *)

NoWrite == [kind |-> "none", table |-> "", id |-> 0, vals |-> <<>>]
InsertWrite(t, row) == [kind |-> "insert", table |-> t, id |-> 0, vals |-> row]
UpdateWrite(t, id, delta) == [kind |-> "update", table |-> t, id |-> id, vals |-> delta]

\* an HTTPException raised by the domain layer: nothing was added to the session
Raise(code) == [status |-> code, write |-> NoWrite]
\* the operation reached `await session.flush()` with this write pending
Pending(w) == [status |-> 0, write |-> w]

IdleReq ==
    [pc |-> "idle", op |-> "", target |-> 0, data |-> <<>>, write |-> NoWrite,
     status |-> 0, result |-> <<>>]

----------------------------------------------------------------------------
(* Partial updates: data.model_dump(exclude_unset=True) is the function    *)
(* from the fields the payload sets to their (optional) values.            *)

\* the value an attribute holds after setattr(row, f, v)
Assigned(table, f, v) == IF f \in NotNullOf(table) /\ v # None THEN Val(v) ELSE v

\* the fields whose value differs from the loaded row after the setattr loop;
\* the unit of work emits an UPDATE for these columns only
NetChange(table, row, data) ==
    {f \in DOMAIN data :
        IF f \in NotNullOf(table)
        THEN data[f] = None \/ Val(data[f]) # row[f]
        ELSE data[f] # row[f]}

\* mutant: the payload is dumped with exclude_none, an explicit null is lost
Delta_exclude_none(table, row, data) ==
    [f \in {g \in NetChange(table, row, data) : data[g] # None} |-> data[f]]

Delta(table, row, data) == [f \in NetChange(table, row, data) |-> data[f]]

\* the row after UPDATE ... SET delta
ApplyDelta(table, row, delta) ==
    [f \in DOMAIN row |->
        IF f \in DOMAIN delta THEN Assigned(table, f, delta[f]) ELSE row[f]]

----------------------------------------------------------------------------
(* SpiritOperations: domain/spirit_operations.py.  Each operator reads the *)
(* committed table through session.get and gives the outcome of the call.  *)

Spirit_create(data) ==
    Pending(InsertWrite("spirits",
        [name |-> data.name, description |-> data.description, is_deleted |-> FALSE]))

\* mutant: the deletion filter is missing
Spirit_get_by_id_unfiltered(spirit_id, include_deleted) ==
    IF spirit_id \notin DOMAIN spirits THEN None
    ELSE Some([id |-> spirit_id] @@ spirits[spirit_id])

Spirit_get_by_id(spirit_id, include_deleted) ==
    IF spirit_id \notin DOMAIN spirits THEN None
    ELSE IF ~include_deleted /\ spirits[spirit_id].is_deleted THEN None
    ELSE Some([id |-> spirit_id] @@ spirits[spirit_id])

\* mutant: a soft-deleted spirit counts as absent
Spirit_update_live_only(spirit_id, data) ==
    IF spirit_id \notin DOMAIN spirits \/ spirits[spirit_id].is_deleted THEN Raise(404)
    ELSE Pending(UpdateWrite("spirits", spirit_id,
                             Delta("spirits", spirits[spirit_id], data)))

Spirit_update(spirit_id, data) ==
    IF spirit_id \notin DOMAIN spirits THEN Raise(404)
    ELSE Pending(UpdateWrite("spirits", spirit_id,
                             Delta("spirits", spirits[spirit_id], data)))

Spirit_soft_delete(spirit_id) == Spirit_update(spirit_id, [is_deleted |-> Some(TRUE)])

Spirit_restore(spirit_id) == Spirit_update(spirit_id, [is_deleted |-> Some(FALSE)])

----------------------------------------------------------------------------
(* EventOperations: domain/event_operations.py *)

\* importance_score bounds of the range check, in tenths (0.0 and 1.0)
ScoreMin == 0
ScoreMax == 10

\* content[:100]
First100(content) == content.first100

\* SHA-256 over "|".join(parts), first 32 hex digits: modelled as the digest
\* being determined by, and determining, the joined parts
generate_dedupe_key(spirit_id, event_type, content, occurred_at, source_uri) ==
    <<"sha256", spirit_id, event_type, First100(content), occurred_at, source_uri>>

\* mutant: only the existence of the spirit is checked
Event_create_any_spirit(data) ==
    IF data.spirit_id \notin DOMAIN spirits
    THEN Raise(404)
    ELSE Pending(InsertWrite("events",
           [spirit_id |-> data.spirit_id,
            event_type |-> data.event_type,
            content |-> data.content,
            meta_summary |-> data.meta_summary,
            occurred_at |-> IF data.occurred_at # None THEN Val(data.occurred_at) ELSE clock,
            session_id |-> data.session_id,
            source_uri |-> data.source_uri,
            dedupe_key |-> data.dedupe_key,
            importance_score |-> data.importance_score,
            is_deleted |-> FALSE]))

\* mutant: the spirit is not looked up, the foreign key alone guards the insert
Event_create_fk_only(data) ==
    LET occurred_at == IF data.occurred_at # None THEN Val(data.occurred_at) ELSE clock
        dedupe_key ==
          IF TruthyStr(data.source_uri) /\ ~TruthyKey(data.dedupe_key)
          THEN Some(generate_dedupe_key(data.spirit_id, data.event_type, data.content,
                                        occurred_at, Val(data.source_uri)))
          ELSE data.dedupe_key
    IN  IF data.importance_score # None
           /\ ~(ScoreMin <= Val(data.importance_score)
                /\ Val(data.importance_score) <= ScoreMax)
        THEN Raise(400)
        ELSE Pending(InsertWrite("events",
               [spirit_id |-> data.spirit_id,
                event_type |-> data.event_type,
                content |-> data.content,
                meta_summary |-> data.meta_summary,
                occurred_at |-> occurred_at,
                session_id |-> data.session_id,
                source_uri |-> data.source_uri,
                dedupe_key |-> dedupe_key,
                importance_score |-> data.importance_score,
                is_deleted |-> FALSE]))

Event_create(data) ==
    IF data.spirit_id \notin DOMAIN spirits \/ spirits[data.spirit_id].is_deleted
    THEN Raise(404)
    ELSE
      LET occurred_at == IF data.occurred_at # None THEN Val(data.occurred_at) ELSE clock
          dedupe_key ==
            IF TruthyStr(data.source_uri) /\ ~TruthyKey(data.dedupe_key)
            THEN Some(generate_dedupe_key(data.spirit_id, data.event_type, data.content,
                                          occurred_at, Val(data.source_uri)))
            ELSE data.dedupe_key
      IN  IF data.importance_score # None
             /\ ~(ScoreMin <= Val(data.importance_score)
                  /\ Val(data.importance_score) <= ScoreMax)
          THEN Raise(400)
          ELSE Pending(InsertWrite("events",
                 [spirit_id |-> data.spirit_id,
                  event_type |-> data.event_type,
                  content |-> data.content,
                  meta_summary |-> data.meta_summary,
                  occurred_at |-> occurred_at,
                  session_id |-> data.session_id,
                  source_uri |-> data.source_uri,
                  dedupe_key |-> dedupe_key,
                  importance_score |-> data.importance_score,
                  is_deleted |-> FALSE]))

\* mutant: an event of a soft-deleted spirit is hidden
Event_get_by_id_live_spirit(event_id, include_deleted) ==
    IF event_id \notin DOMAIN events THEN None
    ELSE IF spirits[events[event_id].spirit_id].is_deleted THEN None
    ELSE IF ~include_deleted /\ events[event_id].is_deleted THEN None
    ELSE Some([id |-> event_id] @@ events[event_id])

Event_get_by_id(event_id, include_deleted) ==
    IF event_id \notin DOMAIN events THEN None
    ELSE IF ~include_deleted /\ events[event_id].is_deleted THEN None
    ELSE Some([id |-> event_id] @@ events[event_id])

\* mutant: the event and its spirit must be live, as for create
Event_update_live_only(event_id, data) ==
    IF event_id \notin DOMAIN events THEN Raise(404)
    ELSE IF events[event_id].is_deleted \/ spirits[events[event_id].spirit_id].is_deleted
    THEN Raise(404)
    ELSE IF "importance_score" \in DOMAIN data
            /\ data.importance_score # None
            /\ ~(ScoreMin <= Val(data.importance_score)
                 /\ Val(data.importance_score) <= ScoreMax)
    THEN Raise(400)
    ELSE Pending(UpdateWrite("events", event_id,
                             Delta("events", events[event_id], data)))

\* mutant: an id that names no event is passed over in silence
Event_update_missing_ignored(event_id, data) ==
    IF event_id \notin DOMAIN events THEN Pending(UpdateWrite("events", event_id, <<>>))
    ELSE IF "importance_score" \in DOMAIN data
            /\ data.importance_score # None
            /\ ~(ScoreMin <= Val(data.importance_score)
                 /\ Val(data.importance_score) <= ScoreMax)
    THEN Raise(400)
    ELSE Pending(UpdateWrite("events", event_id,
                             Delta("events", events[event_id], data)))

\* mutant: the range of importance_score is not checked again
Event_update_unchecked(event_id, data) ==
    IF event_id \notin DOMAIN events THEN Raise(404)
    ELSE Pending(UpdateWrite("events", event_id,
                             Delta("events", events[event_id], data)))

Event_update(event_id, data) ==
    IF event_id \notin DOMAIN events THEN Raise(404)
    ELSE IF "importance_score" \in DOMAIN data
            /\ data.importance_score # None
            /\ ~(ScoreMin <= Val(data.importance_score)
                 /\ Val(data.importance_score) <= ScoreMax)
    THEN Raise(400)
    ELSE Pending(UpdateWrite("events", event_id,
                             Delta("events", events[event_id], data)))

\* mutant: the summary is written over the content
Event_update_meta_summary_content(event_id, meta_summary) ==
    Event_update(event_id, [content |-> Some([first100 |-> meta_summary, rest |-> ""])])

Event_update_meta_summary(event_id, meta_summary) ==
    Event_update(event_id, [meta_summary |-> Some(meta_summary)])

Event_update_importance(event_id, importance_score) ==
    Event_update(event_id, [importance_score |-> Some(importance_score)])

Event_soft_delete(event_id) == Event_update(event_id, [is_deleted |-> Some(TRUE)])

Event_restore(event_id) == Event_update(event_id, [is_deleted |-> Some(FALSE)])

\* the arrangements of the rows S in a result list, each row once
Rows(S) ==
    {s \in [1..Cardinality(S) -> S] :
        \A i, j \in 1..Cardinality(S) : i # j => s[i] # s[j]}

\* .limit(limit).offset(offset)
Window(s, limit, offset) ==
    SubSeq(s, offset + 1, IF offset + limit < Len(s) THEN offset + limit ELSE Len(s))

\* mutant: no tie-break on created_at
RecentFirst_untied(a, b) == events[a].occurred_at > events[b].occurred_at

\* occurred_at DESC, created_at DESC
RecentFirst(a, b) ==
    \/ events[a].occurred_at > events[b].occurred_at
    \/ /\ events[a].occurred_at = events[b].occurred_at
       /\ events[a].created_at > events[b].created_at

\* mutant: the direction of get_recent
OldestFirst_descending(a, b) ==
    \/ events[a].occurred_at > events[b].occurred_at
    \/ /\ events[a].occurred_at = events[b].occurred_at
       /\ events[a].created_at > events[b].created_at

\* occurred_at ASC, created_at ASC
OldestFirst(a, b) ==
    \/ events[a].occurred_at < events[b].occurred_at
    \/ /\ events[a].occurred_at = events[b].occurred_at
       /\ events[a].created_at < events[b].created_at

\* the rows get_recent's WHERE clauses keep
RecentMatches(spirit_id, event_type, session_id, min_importance, include_deleted) ==
    {e \in DOMAIN events :
        /\ events[e].spirit_id = spirit_id
        /\ ~include_deleted => ~events[e].is_deleted
        /\ TruthyStr(event_type) => events[e].event_type = Val(event_type)
        /\ TruthyStr(session_id) => events[e].session_id = session_id
        /\ min_importance # None =>
              /\ events[e].importance_score # None
              /\ Val(events[e].importance_score) >= Val(min_importance)}

\* the lists of event ids get_recent may return: ORDER BY admits a list
\* unless a later row sorts strictly before an earlier one (rows with equal
\* keys come in any order)
Event_get_recent(spirit_id, limit, offset, event_type, session_id, min_importance, include_deleted) ==
    {Window(s, limit, offset) :
        s \in {p \in Rows(RecentMatches(spirit_id, event_type, session_id,
                                        min_importance, include_deleted)) :
                  \A i, j \in 1..Len(p) : i < j => ~RecentFirst(p[j], p[i])}}

\* the lists of event ids get_by_session may return
Event_get_by_session(spirit_id, session_id, include_deleted) ==
    {p \in Rows({e \in DOMAIN events :
                    /\ events[e].spirit_id = spirit_id
                    /\ events[e].session_id = Some(session_id)
                    /\ ~include_deleted => ~events[e].is_deleted}) :
        \A i, j \in 1..Len(p) : i < j => ~OldestFirst(p[j], p[i])}

----------------------------------------------------------------------------
(* SpiritOperations.search_by_name *)

\* Where names are searched, a name and a query are the sequences of their
\* characters.  lower(): the alphabet has the letters b and o in both cases
Lower(c) == IF c = "B" THEN "b" ELSE IF c = "O" THEN "o" ELSE c

\* str LIKE pat: % stands for any run of characters and _ for any one
\* character; ILIKE compares the others without regard to case
RECURSIVE ILike(_, _)
ILike(str, pat) ==
    IF pat = <<>> THEN str = <<>>
    ELSE IF Head(pat) = "%"
         THEN ILike(str, Tail(pat)) \/ (str # <<>> /\ ILike(Tail(str), pat))
    ELSE /\ str # <<>>
         /\ Head(pat) = "_" \/ Lower(Head(pat)) = Lower(Head(str))
         /\ ILike(Tail(str), Tail(pat))

\* the code point of a character of the alphabet
CodePoint(c) ==
    IF c = "%" THEN 37 ELSE IF c = "B" THEN 66 ELSE IF c = "O" THEN 79
    ELSE IF c = "_" THEN 95 ELSE IF c = "b" THEN 98 ELSE 111

\* Spirit.name.asc(): a sorts strictly before b
RECURSIVE NameBefore(_, _)
NameBefore(a, b) ==
    IF b = <<>> THEN FALSE
    ELSE IF a = <<>> THEN TRUE
    ELSE IF Head(a) # Head(b) THEN CodePoint(Head(a)) < CodePoint(Head(b))
    ELSE NameBefore(Tail(a), Tail(b))

\* the lists of spirit ids search_by_name may return
Spirit_search_by_name(name_query, limit) ==
    {Window(p, limit, 0) :
        p \in {o \in Rows({i \in DOMAIN spirits :
                              /\ ILike(spirits[i].name, <<"%">> \o name_query \o <<"%">>)
                              /\ spirits[i].is_deleted = FALSE}) :
                  \A i, j \in 1..Len(o) :
                      i < j => ~NameBefore(spirits[o[j]].name, spirits[o[i]].name)}}

----------------------------------------------------------------------------
(* The record store as one session sees it (PostgreSQL, READ COMMITTED):   *)
(* a flushed statement is visible to its own transaction only, a row       *)
(* updated by a transaction in flight is locked until that one ends.       *)

Table(t) == IF t = "spirits" THEN spirits ELSE events
IdsOf(t) == IF t = "spirits" THEN SpiritIds ELSE EventIds
UniqueColumnsOf(t) == IF t = "events" THEN EventUniqueColumns ELSE {"id"}

\* a request whose INSERT or UPDATE was executed and is not yet committed
Flushed(q, kind, t) ==
    /\ req[q].pc = "returned"
    /\ req[q].write.kind = kind
    /\ req[q].write.table = t
    /\ DOMAIN req[q].write.vals # {}

\* a request that is going to INSERT into t, or has done so
Inserting(q, t) ==
    /\ req[q].pc \in {"flush", "returned"}
    /\ req[q].write.kind = "insert"
    /\ req[q].write.table = t

\* gen_random_uuid(): an id no row has, committed or not
FreeIds(t) ==
    IdsOf(t) \ (DOMAIN Table(t) \cup {req[q].write.id : q \in {x \in DOMAIN req : Flushed(x, "insert", t)}})

NewId(t) == CHOOSE i \in FreeIds(t) : \A j \in FreeIds(t) : i <= j

\* the constraints of the schema an INSERT of row into t breaks
InsertViolations(t, row) ==
    {c \in UniqueColumnsOf(t) \ {"id"} :
        row[c] # None /\ \E i \in DOMAIN Table(t) : Table(t)[i][c] = row[c]}
    \cup {c \in {"spirit_id"} : t = "events" /\ row.spirit_id \notin DOMAIN spirits}

\* the NOT NULL columns an UPDATE ... SET delta sets to NULL
UpdateViolations(t, delta) == {f \in DOMAIN delta : f \in NotNullOf(t) /\ delta[f] = None}

\* an INSERT waits for a transaction in flight that inserted the same unique value
InsertWaits(r, t, row) ==
    \E q \in DOMAIN req \ {r} :
        /\ Flushed(q, "insert", t)
        /\ \E c \in UniqueColumnsOf(t) \ {"id"} :
               row[c] # None /\ req[q].write.vals[c] = row[c]

\* an UPDATE waits for a transaction in flight that updated the same row
UpdateWaits(r, t, id) ==
    \E q \in DOMAIN req \ {r} : Flushed(q, "update", t) /\ req[q].write.id = id

----------------------------------------------------------------------------
(* Routes: api/routes/spirits.py, api/routes/events.py *)

\* the status a route answers with when its handler returns
SuccessStatus(op) ==
    IF op \in {"create_spirit", "create_event"} THEN 201
    ELSE IF op \in {"delete_spirit", "delete_event"} THEN 204
    ELSE 200

\* create_event turns an IntegrityError into 409 or 400; no other route
\* catches it
OnIntegrityError(op, violations) ==
    IF op = "create_event"
    THEN IF "dedupe_key" \in violations THEN 409 ELSE 400
    ELSE 500

----------------------------------------------------------------------------
(* get_db (core/database.py): one session and one transaction per request. *)
(* A request runs its handler up to the first statement it flushes, then   *)
(* flushes, then commits or rolls back, then closes.                       *)

\* the handler ran up to `await session.flush()` or raised before it
Begin(r, op, target, data, outcome) ==
    /\ req[r].pc = "idle"
    /\ outcome.write.kind = "insert" =>
          Cardinality(DOMAIN Table(outcome.write.table))
            + Cardinality({q \in DOMAIN req : Inserting(q, outcome.write.table)})
          < Cardinality(IdsOf(outcome.write.table))
    /\ req' = [req EXCEPT ![r] =
                  [pc |-> IF outcome.status = 0 THEN "flush" ELSE "raised",
                   op |-> op, target |-> target, data |-> data,
                   write |-> outcome.write, status |-> outcome.status,
                   result |-> <<>>]]
    /\ UNCHANGED <<spirits, events, clock>>

\* session.flush(): the pending INSERT or UPDATE is executed
FlushInsert(r) ==
    LET w == req[r].write
        row == IF w.table = "events"
               THEN w.vals @@ [created_at |-> TimestampMixin_created_at]
               ELSE w.vals
        violations == InsertViolations(w.table, row)
    IN  /\ req[r].pc = "flush"
        /\ w.kind = "insert"
        /\ ~InsertWaits(r, w.table, row)
        /\ IF violations = {}
           THEN /\ req' = [req EXCEPT ![r].pc = "returned",
                                      ![r].write = [w EXCEPT !.id = NewId(w.table), !.vals = row],
                                      ![r].status = SuccessStatus(req[r].op)]
                /\ clock' = IF w.table = "events" THEN clock + 1 ELSE clock
           ELSE /\ req' = [req EXCEPT ![r].pc = "raised",
                                      ![r].write = NoWrite,
                                      ![r].status = OnIntegrityError(req[r].op, violations)]
                /\ UNCHANGED clock
        /\ UNCHANGED <<spirits, events>>

FlushUpdate(r) ==
    LET w == req[r].write
        violations == UpdateViolations(w.table, w.vals)
    IN  /\ req[r].pc = "flush"
        /\ w.kind = "update"
        /\ DOMAIN w.vals # {} => ~UpdateWaits(r, w.table, w.id)
        /\ IF violations = {}
           THEN req' = [req EXCEPT ![r].pc = "returned",
                                   ![r].status = SuccessStatus(req[r].op)]
           ELSE req' = [req EXCEPT ![r].pc = "raised",
                                   ![r].write = NoWrite,
                                   ![r].status = OnIntegrityError(req[r].op, violations)]
        /\ UNCHANGED <<spirits, events, clock>>

\* mutant: a soft delete removes the row
Written_hard_delete(t, w) ==
    IF w.table # t THEN Table(t)
    ELSE IF w.kind = "insert" THEN (w.id :> w.vals) @@ Table(t)
    ELSE IF w.kind = "update" /\ DOMAIN w.vals # {}
         THEN IF "is_deleted" \in DOMAIN w.vals /\ w.vals.is_deleted = Some(TRUE)
              THEN [j \in DOMAIN Table(t) \ {w.id} |-> Table(t)[j]]
              ELSE [Table(t) EXCEPT ![w.id] = ApplyDelta(t, Table(t)[w.id], w.vals)]
    ELSE Table(t)

\* the table t after the transaction's write w is committed
Written(t, w) ==
    IF w.table # t THEN Table(t)
    ELSE IF w.kind = "insert" THEN (w.id :> w.vals) @@ Table(t)
    ELSE IF w.kind = "update" /\ DOMAIN w.vals # {}
         THEN [Table(t) EXCEPT ![w.id] = ApplyDelta(t, Table(t)[w.id], w.vals)]
    ELSE Table(t)

\* mutant: the session is closed without a commit
Commit_missing(r) ==
    /\ req[r].pc = "returned"
    /\ req' = [req EXCEPT ![r].pc = "committed"]
    /\ UNCHANGED <<spirits, events, clock>>

\* the handler returned: `await session.commit()`
Commit(r) ==
    /\ req[r].pc = "returned"
    /\ spirits' = Written("spirits", req[r].write)
    /\ events' = Written("events", req[r].write)
    /\ req' = [req EXCEPT ![r].pc = "committed"]
    /\ UNCHANGED clock

\* an exception left the handler: `await session.rollback()`, then re-raise
Rollback(r) ==
    /\ req[r].pc = "raised"
    /\ req' = [req EXCEPT ![r].pc = "rolledback", ![r].write = NoWrite]
    /\ UNCHANGED <<spirits, events, clock>>

\* finally: `await session.close()`
Close(r) ==
    /\ req[r].pc \in {"committed", "rolledback"}
    /\ req' = [req EXCEPT ![r] = IdleReq]
    /\ UNCHANGED <<spirits, events, clock>>

----------------------------------------------------------------------------
(* The requests: a route (or a caller of the domain operation, where no    *)
(* route exists for it) inside get_db's unit of work.                      *)

create_spirit(r, data) == Begin(r, "create_spirit", 0, data, Spirit_create(data))

update_spirit(r, id, data) == Begin(r, "update_spirit", id, data, Spirit_update(id, data))

delete_spirit(r, id) == Begin(r, "delete_spirit", id, <<>>, Spirit_soft_delete(id))

restore_spirit(r, id) == Begin(r, "restore_spirit", id, <<>>, Spirit_restore(id))

create_event(r, data) == Begin(r, "create_event", 0, data, Event_create(data))

update_event(r, id, data) == Begin(r, "update_event", id, data, Event_update(id, data))

delete_event(r, id) == Begin(r, "delete_event", id, <<>>, Event_soft_delete(id))

restore_event(r, id) == Begin(r, "restore_event", id, <<>>, Event_restore(id))

update_event_importance(r, id, score) ==
    Begin(r, "update_importance", id, [importance_score |-> Some(score)],
          Event_update_importance(id, score))

update_event_meta_summary(r, id, summary) ==
    Begin(r, "update_meta_summary", id, [meta_summary |-> Some(summary)],
          Event_update_meta_summary(id, summary))

\* a read-only handler: it executes its SELECT and returns what that gave
Query(r, op, args, results) ==
    /\ req[r].pc = "idle"
    /\ \E res \in results :
          req' = [req EXCEPT ![r] =
                     [pc |-> "returned", op |-> op, target |-> 0, data |-> args,
                      write |-> NoWrite, status |-> 200, result |-> res]]
    /\ UNCHANGED <<spirits, events, clock>>

\* GET /events: the listing route
list_events_result(a) ==
    IF TruthyStr(a.session_id)
    THEN Event_get_by_session(a.spirit_id, Val(a.session_id), a.include_deleted)
    ELSE Event_get_recent(a.spirit_id, a.limit, a.offset, a.event_type, a.session_id,
                          a.min_importance, a.include_deleted)

list_events(r, a) == Query(r, "list_events", a, list_events_result(a))

\* callers of the domain queries
get_recent(r, a) ==
    Query(r, "get_recent", a,
          Event_get_recent(a.spirit_id, a.limit, a.offset, a.event_type, a.session_id,
                           a.min_importance, a.include_deleted))

get_by_session(r, a) ==
    Query(r, "get_by_session", a,
          Event_get_by_session(a.spirit_id, Val(a.session_id), a.include_deleted))

\* GET /spirits/search
search_spirits(r, name, limit) ==
    Query(r, "search_spirits", [name |-> name, limit |-> limit],
          Spirit_search_by_name(name, limit))

\* the steps of get_db after the handler began
UnitOfWork(r) == FlushInsert(r) \/ FlushUpdate(r) \/ Commit(r) \/ Rollback(r) \/ Close(r)

----------------------------------------------------------------------------
(* Initial state: empty tables, no request in flight *)

Init ==
    /\ spirits = <<>>
    /\ events = <<>>
    /\ clock = 1
    /\ req = [r \in 1..NReq |-> IdleReq]

----------------------------------------------------------------------------
(* Request payloads *)

EventData(s, t, c, o, se, u, k, i) ==
    [spirit_id |-> s, event_type |-> t, content |-> c, meta_summary |-> None,
     occurred_at |-> o, session_id |-> se, source_uri |-> u, dedupe_key |-> k,
     importance_score |-> i]

Hello == [first100 |-> "hello", rest |-> ""]

----------------------------------------------------------------------------
(* Spec: the lifecycle of spirits and of their events, one request at a    *)
(* time.                                                                   *)

LifeSpiritCreates == {[name |-> "Bob", description |-> None]}

LifeSpiritUpdates ==
    {<<>>, [description |-> Some("d")], [description |-> None], [name |-> None]}

LifeEventCreates ==
    {EventData(s, "message.in", Hello, None, None, None, None, None) : s \in SpiritRefs}

Next ==
    \E r \in {1} :
        \/ \E d \in LifeSpiritCreates : create_spirit(r, d)
        \/ \E id \in SpiritRefs, d \in LifeSpiritUpdates : update_spirit(r, id, d)
        \/ \E id \in SpiritRefs : delete_spirit(r, id)
        \/ \E id \in SpiritRefs : restore_spirit(r, id)
        \/ \E d \in LifeEventCreates : create_event(r, d)
        \/ \E id \in EventRefs : delete_event(r, id)
        \/ \E id \in EventRefs : restore_event(r, id)
        \/ UnitOfWork(r)

Spec == Init /\ [][Next]_vars

----------------------------------------------------------------------------
(* SpecDedupe: concurrent creates of events that carry a source_uri or an  *)
(* explicit dedupe_key, and soft deletes of events.                        *)

\* same first 100 characters as Hello, more after them
HelloAgain == [first100 |-> "hello", rest |-> " again"]

DedupeEventCreates ==
    {EventData(s, "message.in", c, Some(1), None, Some("uri"), k, None) :
        s \in {1, MaxSpirits + 1}, c \in {Hello, HelloAgain}, k \in {None, Some(<<"key">>)}}

NextDedupe ==
    \E r \in 1..NReq :
        \/ \E d \in LifeSpiritCreates : create_spirit(r, d)
        \/ \E d \in DedupeEventCreates : create_event(r, d)
        \/ \E id \in EventRefs : delete_event(r, id)
        \/ UnitOfWork(r)

SpecDedupe == Init /\ [][NextDedupe]_vars

----------------------------------------------------------------------------
(* SpecScore: creates and updates that carry an importance_score, one      *)
(* request at a time.                                                      *)

\* importance scores a caller may send, in tenths: -0.1, 0.0, 0.5, 1.0, 1.1
Scores == {ScoreMin - 1, ScoreMin, 5, ScoreMax, ScoreMax + 1}

ScoreEventCreates ==
    {EventData(s, "message.in", Hello, None, None, None, None, i) :
        s \in {1, MaxSpirits + 1}, i \in {None} \cup {Some(x) : x \in Scores}}

ScoreEventUpdates ==
    {[importance_score |-> i] : i \in {None} \cup {Some(x) : x \in Scores}}
    \cup {[meta_summary |-> Some("summary")]}

NextScore ==
    \E r \in {1} :
        \/ \E d \in LifeSpiritCreates : create_spirit(r, d)
        \/ \E d \in ScoreEventCreates : create_event(r, d)
        \/ \E id \in EventRefs, d \in ScoreEventUpdates : update_event(r, id, d)
        \/ \E id \in EventRefs, x \in Scores : update_event_importance(r, id, x)
        \/ UnitOfWork(r)

SpecScore == Init /\ [][NextScore]_vars

----------------------------------------------------------------------------
(* SpecOrder: events of one spirit that occur at two instants, in and out  *)
(* of a session, listed by get_recent and get_by_session.                  *)

ListArgs(s, limit, offset, t, se, mi, incl) ==
    [spirit_id |-> s, limit |-> limit, offset |-> offset, event_type |-> t,
     session_id |-> se, min_importance |-> mi, include_deleted |-> incl]

OrderEventCreates ==
    {EventData(1, "message.in", Hello, Some(o), se, None, None, None) :
        o \in {1, 2}, se \in {None, Some("s1")}}

OrderRecentQueries ==
    {ListArgs(1, limit, offset, None, None, None, FALSE) :
        limit \in 1..MaxEvents, offset \in 0..(MaxEvents - 1)}

OrderSessionQueries == {ListArgs(1, MaxEvents, 0, None, Some("s1"), None, FALSE)}

NextOrder ==
    \E r \in {1} :
        \/ \E d \in LifeSpiritCreates : create_spirit(r, d)
        \/ \E d \in OrderEventCreates : create_event(r, d)
        \/ \E id \in EventRefs : delete_event(r, id)
        \/ \E a \in OrderRecentQueries : get_recent(r, a)
        \/ \E a \in OrderSessionQueries : get_by_session(r, a)
        \/ UnitOfWork(r)

SpecOrder == Init /\ [][NextOrder]_vars

----------------------------------------------------------------------------
(* SpecFilter: events that each miss at most one of the filters of a       *)
(* listing, listed by get_recent and by the list_events route.             *)

FilterEventCreates ==
    {EventData(1, "message.in", Hello, Some(1), Some("s1"), None, None, Some(7)),
     EventData(1, "message.out", Hello, Some(1), Some("s1"), None, None, Some(7)),
     EventData(1, "message.in", Hello, Some(1), None, None, None, Some(7)),
     EventData(1, "message.in", Hello, Some(1), Some("s1"), None, None, Some(3)),
     EventData(1, "message.in", Hello, Some(1), Some("s1"), None, None, None),
     EventData(2, "message.in", Hello, Some(1), Some("s1"), None, None, Some(7))}

FilterQueries ==
    {ListArgs(1, limit, 0, t, se, mi, incl) :
        limit \in {1, MaxEvents},
        t \in {None, Some("message.in")},
        se \in {None, Some("s1")},
        mi \in {None, Some(5)},
        incl \in BOOLEAN}

NextFilter ==
    \E r \in {1} :
        \/ \E d \in LifeSpiritCreates : create_spirit(r, d)
        \/ \E d \in FilterEventCreates : create_event(r, d)
        \/ \E id \in EventRefs : delete_event(r, id)
        \/ \E a \in FilterQueries : get_recent(r, a)
        \/ \E a \in FilterQueries : list_events(r, a)
        \/ UnitOfWork(r)

SpecFilter == Init /\ [][NextFilter]_vars

----------------------------------------------------------------------------
(* SpecUpdate: partial updates of events, and the soft delete and restore  *)
(* of events and of their spirit, one request at a time.                   *)

UpdateEventCreates ==
    {EventData(s, "message.in", Hello, o, None, Some("uri"), None, None) :
        s \in {1, MaxSpirits + 1}, o \in {None, Some(1)}}

UpdateEventUpdates ==
    {<<>>,
     [meta_summary |-> Some("m")],
     [meta_summary |-> None],
     [importance_score |-> Some(5), meta_summary |-> Some("m")],
     [is_deleted |-> None]}

UpdateSpiritUpdates == {<<>>, [description |-> None]}

NextUpdate ==
    \E r \in {1} :
        \/ \E d \in LifeSpiritCreates : create_spirit(r, d)
        \/ \E id \in SpiritRefs, d \in UpdateSpiritUpdates : update_spirit(r, id, d)
        \/ \E id \in SpiritRefs : delete_spirit(r, id)
        \/ \E id \in SpiritRefs : restore_spirit(r, id)
        \/ \E d \in UpdateEventCreates : create_event(r, d)
        \/ \E id \in EventRefs, d \in UpdateEventUpdates : update_event(r, id, d)
        \/ \E id \in EventRefs : update_event_importance(r, id, 5)
        \/ \E id \in EventRefs : update_event_meta_summary(r, id, "m")
        \/ \E id \in EventRefs : delete_event(r, id)
        \/ \E id \in EventRefs : restore_event(r, id)
        \/ UnitOfWork(r)

SpecUpdate == Init /\ [][NextUpdate]_vars

----------------------------------------------------------------------------
(* SpecUnit: concurrent units of work that commit and that fail: creates   *)
(* for a live, a soft-deleted and a missing spirit, with a valid and an    *)
(* invalid score, updates that the store accepts and refuses, and soft     *)
(* deletes of the spirit.                                                  *)

UnitEventCreates ==
    {EventData(s, "message.in", Hello, Some(1), None, None, None, i) :
        s \in {1, MaxSpirits + 1}, i \in {None, Some(ScoreMax + 1)}}

UnitEventUpdates == {[meta_summary |-> Some("m")], [is_deleted |-> None]}

NextUnit ==
    \E r \in 1..NReq :
        \/ \E d \in LifeSpiritCreates : create_spirit(r, d)
        \/ \E id \in {1} : delete_spirit(r, id)
        \/ \E d \in UnitEventCreates : create_event(r, d)
        \/ \E id \in {1, MaxEvents + 1}, d \in UnitEventUpdates : update_event(r, id, d)
        \/ UnitOfWork(r)

SpecUnit == Init /\ [][NextUnit]_vars

----------------------------------------------------------------------------
(* SpecSearch: spirits whose names are spelled out, searched by name.      *)

SearchSpiritCreates ==
    {[name |-> n, description |-> None] :
        n \in {<<"B", "o", "b">>, <<"b", "O", "B", "b">>, <<"b", "_", "b">>, <<"o">>}}

SearchQueries == {<<"b", "o", "b">>, <<"O">>, <<"_">>, <<"%">>, <<"b", "_", "b">>}

NextSearch ==
    \E r \in {1} :
        \/ \E d \in SearchSpiritCreates : create_spirit(r, d)
        \/ \E id \in SpiritRefs : delete_spirit(r, id)
        \/ \E q \in SearchQueries, limit \in 1..MaxSpirits : search_spirits(r, q, limit)
        \/ UnitOfWork(r)

SpecSearch == Init /\ [][NextSearch]_vars

----------------------------------------------------------------------------
(* SpecDerive: creates with and without a source_uri and a dedupe_key,     *)
(* each absent, empty or not, and soft deletes, one request at a time.     *)

DeriveEventCreates ==
    {EventData(1, "message.in", Hello, Some(1), None, u, k, None) :
        u \in {None, Some(""), Some("uri")},
        k \in {None, Some(<<>>), Some(<<"key">>)}}

NextDerive ==
    \E r \in {1} :
        \/ \E d \in LifeSpiritCreates : create_spirit(r, d)
        \/ \E d \in DeriveEventCreates : create_event(r, d)
        \/ \E id \in EventRefs : delete_event(r, id)
        \/ UnitOfWork(r)

SpecDerive == Init /\ [][NextDerive]_vars

----------------------------------------------------------------------------
(* SpecRace: concurrent updates of one event, on the same field and on     *)
(* different fields.                                                       *)

RaceEventCreates == {EventData(1, "message.in", Hello, Some(1), None, None, None, None)}

RaceEventUpdates ==
    {[meta_summary |-> Some("a")], [meta_summary |-> Some("b")],
     [importance_score |-> Some(5)]}

NextRace ==
    \E r \in 1..NReq :
        \/ \E d \in LifeSpiritCreates : create_spirit(r, d)
        \/ \E d \in RaceEventCreates : create_event(r, d)
        \/ \E id \in {1}, d \in RaceEventUpdates : update_event(r, id, d)
        \/ UnitOfWork(r)

SpecRace == Init /\ [][NextRace]_vars

----------------------------------------------------------------------------
(* Vocabulary of the properties *)

\* request r takes the step from pc p to pc q
Steps(r, p, q) == req[r].pc = p /\ req'[r].pc = q

\* request r takes a step
Moves(r) == req'[r] # req[r]

\* the operation, target and payload of the request that takes the step
OpOf(r) == IF req[r].pc = "idle" THEN req'[r].op ELSE req[r].op
TargetOf(r) == IF req[r].pc = "idle" THEN req'[r].target ELSE req[r].target
DataOf(r) == IF req[r].pc = "idle" THEN req'[r].data ELSE req[r].data

Range(s) == {s[i] : i \in DOMAIN s}

SpiritView(id, row) == [id |-> id] @@ row
EventView(id, row) == [id |-> id] @@ row

----------------------------------------------------------------------------
(* C1: when soft_delete of an existing spirit S commits, get_by_id(S) is   *)
(* none and get_by_id(S, include_deleted) is S with is_deleted = TRUE and  *)
(* its other fields as before; when restore of S commits, get_by_id(S) is  *)
(* S with is_deleted = FALSE.                                              *)
C1_SoftDeleteThenRestore ==
    [][\A r \in DOMAIN req :
        LET id == req[r].target IN
        /\ (Steps(r, "returned", "committed") /\ req[r].op = "delete_spirit") =>
              /\ (Spirit_get_by_id(id, FALSE))' = None
              /\ (Spirit_get_by_id(id, TRUE))'
                    = Some(SpiritView(id, [spirits[id] EXCEPT !.is_deleted = TRUE]))
        /\ (Steps(r, "returned", "committed") /\ req[r].op = "restore_spirit") =>
              /\ (Spirit_get_by_id(id, FALSE))'
                    = Some(SpiritView(id, [spirits[id] EXCEPT !.is_deleted = FALSE]))
              /\ (Spirit_get_by_id(id, TRUE))' = (Spirit_get_by_id(id, FALSE))'
    ]_vars

\* a restore that undid a soft delete has committed
C1_Witness ==
    \E r \in DOMAIN req :
        /\ req[r].pc = "committed"
        /\ req[r].op = "restore_spirit"
        /\ DOMAIN req[r].write.vals = {"is_deleted"}
        /\ Spirit_get_by_id(req[r].target, FALSE) # None

(* C2: create_event for a spirit_id that names no spirit, or a soft-deleted *)
(* one, raises 404 before anything is added to the session, the request is *)
(* rolled back, and no step of it changes the events table.                *)
C2_CreateForMissingSpirit ==
    [][\A r \in DOMAIN req :
        /\ ( /\ Steps(r, "idle", req'[r].pc) /\ req'[r].op = "create_event"
             /\ \/ req'[r].data.spirit_id \notin DOMAIN spirits
                \/ spirits[req'[r].data.spirit_id].is_deleted )
           => /\ req'[r].pc = "raised"
              /\ req'[r].status = 404
              /\ req'[r].write = NoWrite
        /\ (OpOf(r) = "create_event" /\ req'[r].status = 404) =>
              /\ req'[r].pc \in {"raised", "rolledback"}
              /\ events' = events
        /\ (req[r].op = "create_event" /\ req[r].status = 404 /\ Moves(r)) =>
              events' = events
    ]_vars

\* a create for a soft-deleted spirit was refused and rolled back
C2_Witness ==
    \E r \in DOMAIN req :
        /\ req[r].op = "create_event"
        /\ req[r].pc = "rolledback"
        /\ req[r].status = 404
        /\ req[r].data.spirit_id \in DOMAIN spirits
        /\ spirits[req[r].data.spirit_id].is_deleted
        /\ DOMAIN events # {}

(* C9: no step of a request that soft-deletes or restores a spirit changes *)
(* the events table, and after it every event of that spirit is still      *)
(* returned by get_by_id and, unless itself soft-deleted, by get_recent.    *)
C9_SpiritDeleteLeavesEvents ==
    [][\A r \in DOMAIN req, id \in SpiritRefs :
        (OpOf(r) \in {"delete_spirit", "restore_spirit"} /\ TargetOf(r) = id /\ Moves(r)) =>
            /\ events' = events
            /\ \A e \in DOMAIN events :
                 events[e].spirit_id = id =>
                   /\ (Event_get_by_id(e, TRUE))' = Some(EventView(e, events[e]))
                   /\ ~events[e].is_deleted =>
                        /\ (Event_get_by_id(e, FALSE))' = Some(EventView(e, events[e]))
                        /\ \A res \in (Event_get_recent(id, MaxEvents, 0, None, None,
                                                        None, FALSE))' :
                              e \in Range(res)
    ]_vars

\* a soft delete of a spirit that owns a live event has committed
C9_Witness ==
    \E r \in DOMAIN req :
        /\ req[r].op = "delete_spirit"
        /\ req[r].pc = "committed"
        /\ DOMAIN req[r].write.vals = {"is_deleted"}
        /\ \E e \in DOMAIN events :
              events[e].spirit_id = req[r].target /\ ~events[e].is_deleted

(* C10: soft_delete of a spirit that is already soft-deleted, and restore  *)
(* of one that is live, are not refused, and no step of such a request     *)
(* changes a stored row.                                                   *)
C10_SoftDeleteIdempotent ==
    [][\A r \in DOMAIN req :
        ( /\ Moves(r)
          /\ TargetOf(r) \in DOMAIN spirits
          /\ \/ OpOf(r) = "delete_spirit" /\ spirits[TargetOf(r)].is_deleted
             \/ OpOf(r) = "restore_spirit" /\ ~spirits[TargetOf(r)].is_deleted )
        => /\ req'[r].pc \notin {"raised", "rolledback"}
           /\ req'[r].pc = "committed" => req'[r].status = SuccessStatus(OpOf(r))
           /\ spirits' = spirits
           /\ events' = events
    ]_vars

\* a second soft delete of the same spirit has committed
C10_Witness ==
    \E r \in DOMAIN req :
        /\ req[r].op = "delete_spirit"
        /\ req[r].pc = "committed"
        /\ req[r].write.kind = "update"
        /\ DOMAIN req[r].write.vals = {}
        /\ spirits[req[r].target].is_deleted

\* a dedupe key that create derived (a digest), not one the caller sent
Derived(k) == k # None /\ Val(k) # <<>> /\ Val(k)[1] = "sha256"

\* the fields the dedupe key is derived from agree
SameSource(a, b) ==
    /\ a.spirit_id = b.spirit_id
    /\ a.event_type = b.event_type
    /\ First100(a.content) = First100(b.content)
    /\ a.occurred_at = b.occurred_at
    /\ a.source_uri # None
    /\ a.source_uri = b.source_uri

(* C3: when a create without an explicit dedupe_key flushes its INSERT and *)
(* a stored event, itself created without an explicit key, has the same    *)
(* spirit_id, event_type, first 100 characters of content, occurred_at and *)
(* source_uri, both carry the same derived key and the create is refused   *)
(* with 409.                                                               *)
C3_DuplicateCreateConflicts ==
    [][\A r \in DOMAIN req :
        ( /\ Steps(r, "flush", req'[r].pc)
          /\ req[r].op = "create_event"
          /\ req[r].data.dedupe_key = None
          /\ \E e \in DOMAIN events :
                Derived(events[e].dedupe_key) /\ SameSource(events[e], req[r].write.vals) )
        => /\ \A e \in DOMAIN events :
                (Derived(events[e].dedupe_key) /\ SameSource(events[e], req[r].write.vals))
                    => events[e].dedupe_key = req[r].write.vals.dedupe_key
           /\ req'[r].pc = "raised"
           /\ req'[r].status = 409
    ]_vars

(* C4: no two committed events, soft-deleted or not, carry the same        *)
(* non-null dedupe_key.                                                    *)
C4_DedupeKeyUnique ==
    \A a, b \in DOMAIN events :
        (a # b /\ events[a].dedupe_key # None) => events[a].dedupe_key # events[b].dedupe_key

(* C5: every stored importance_score is null or within [0.0, 1.0]; a       *)
(* create, update or update_importance whose spirit or event resolves is   *)
(* refused with 400 before anything is added to the session when its score *)
(* is outside the range and goes on to flush when it is inside, 0.0 and    *)
(* 1.0 included; a request refused with 400 changes no row.                *)
C5_ImportanceInRange ==
    [][/\ \A e \in DOMAIN events' :
            \/ events'[e].importance_score = None
            \/ /\ ScoreMin <= Val(events'[e].importance_score)
               /\ Val(events'[e].importance_score) <= ScoreMax
       /\ \A r \in DOMAIN req :
            LET d == DataOf(r)
                resolves ==
                    IF OpOf(r) = "create_event"
                    THEN /\ d.spirit_id \in DOMAIN spirits
                         /\ ~spirits[d.spirit_id].is_deleted
                    ELSE TargetOf(r) \in DOMAIN events
            IN  /\ ( /\ Steps(r, "idle", req'[r].pc)
                     /\ OpOf(r) \in {"create_event", "update_event", "update_importance"}
                     /\ "importance_score" \in DOMAIN d
                     /\ d.importance_score # None
                     /\ resolves )
                   => IF Val(d.importance_score) < ScoreMin \/ Val(d.importance_score) > ScoreMax
                      THEN /\ req'[r].pc = "raised"
                           /\ req'[r].status = 400
                           /\ req'[r].write = NoWrite
                      ELSE req'[r].pc = "flush"
                /\ (req[r].status = 400 /\ Moves(r)) =>
                      /\ events' = events
                      /\ spirits' = spirits
                      /\ req'[r].pc \in {"rolledback", "idle"}
    ]_vars

\* an update to 1.1 was refused and rolled back while an event holds 1.0
C5_Witness ==
    \E r \in DOMAIN req :
        /\ req[r].op = "update_importance"
        /\ req[r].status = 400
        /\ req[r].pc = "rolledback"
        /\ req[r].data.importance_score = Some(ScoreMax + 1)
        /\ req[r].target \in DOMAIN events
        /\ events[req[r].target].importance_score = Some(ScoreMax)

\* the (occurred_at, created_at) pair of event a is greater than that of b
PairGreater(a, b) ==
    \/ events[a].occurred_at > events[b].occurred_at
    \/ /\ events[a].occurred_at = events[b].occurred_at
       /\ events[a].created_at > events[b].created_at

\* request r holds the list its query returned
Listed(r) == req[r].pc \in {"returned", "committed"}

\* how many of n rows LIMIT limit OFFSET offset leaves
WindowLen(n, limit, offset) ==
    IF n <= offset THEN 0 ELSE IF n - offset < limit THEN n - offset ELSE limit

(* C6: the list get_recent returns holds the live events of the spirit in  *)
(* descending order of (occurred_at, created_at), cut to                   *)
(* [offset, offset + limit): its i-th event has exactly offset + i - 1     *)
(* matching events with a greater pair, any earlier event of the list has  *)
(* the greater pair, and for A before B = C in occurred_at with C created  *)
(* after B the whole list is [C, B, A].                                    *)
C6_RecentOrder ==
    \A r \in DOMAIN req :
        (req[r].op = "get_recent" /\ Listed(r)) =>
            LET a == req[r].data
                res == req[r].result
                M == {e \in DOMAIN events :
                        events[e].spirit_id = a.spirit_id /\ ~events[e].is_deleted}
            IN  /\ Len(res) = WindowLen(Cardinality(M), a.limit, a.offset)
                /\ \A i \in 1..Len(res) :
                      /\ res[i] \in M
                      /\ Cardinality({m \in M : PairGreater(m, res[i])}) = a.offset + i - 1
                /\ \A i, j \in 1..Len(res) : i < j => PairGreater(res[i], res[j])
                /\ \A x, y, z \in M :
                      ( /\ M = {x, y, z}
                        /\ events[x].occurred_at < events[y].occurred_at
                        /\ events[y].occurred_at = events[z].occurred_at
                        /\ events[y].created_at < events[z].created_at
                        /\ a.offset = 0
                        /\ a.limit >= 3 )
                      => res = <<z, y, x>>

\* get_recent returned [C, B, A] for A older than B and C, C created after B
C6_Witness ==
    \E r \in DOMAIN req :
        /\ req[r].op = "get_recent"
        /\ Listed(r)
        /\ Len(req[r].result) = 3
        /\ LET c == req[r].result[1]
               b == req[r].result[2]
               a == req[r].result[3]
           IN  /\ events[a].occurred_at < events[b].occurred_at
               /\ events[b].occurred_at = events[c].occurred_at
               /\ events[b].created_at < events[c].created_at

(* C7: the list get_by_session returns holds every live event of the       *)
(* spirit with that session_id, each once, in ascending order of           *)
(* (occurred_at, created_at), whatever the order of insertion.             *)
C7_SessionOrder ==
    \A r \in DOMAIN req :
        (req[r].op = "get_by_session" /\ Listed(r)) =>
            LET a == req[r].data
                res == req[r].result
                S == {e \in DOMAIN events :
                        /\ events[e].spirit_id = a.spirit_id
                        /\ events[e].session_id = a.session_id
                        /\ ~events[e].is_deleted}
            IN  /\ Range(res) = S
                /\ Len(res) = Cardinality(S)
                /\ \A i, j \in 1..Len(res) : i < j => PairGreater(res[j], res[i])

\* get_by_session listed an event before one that was inserted earlier
C7_Witness ==
    \E r \in DOMAIN req :
        /\ req[r].op = "get_by_session"
        /\ Listed(r)
        /\ Len(req[r].result) >= 2
        /\ events[req[r].result[1]].created_at > events[req[r].result[2]].created_at
        /\ events[req[r].result[1]].occurred_at < events[req[r].result[2]].occurred_at

(* C8: the list get_recent, or the list_events route, returns holds only   *)
(* events that belong to spirit_id, match event_type, session_id and       *)
(* min_importance where supplied and are not soft-deleted unless           *)
(* include_deleted, and as many of them as limit and offset leave.         *)
C8_FiltersConjunctive ==
    \A r \in DOMAIN req :
        (req[r].op \in {"get_recent", "list_events"} /\ Listed(r)) =>
            LET a == req[r].data
                res == req[r].result
                E == {e \in DOMAIN events :
                        /\ events[e].spirit_id = a.spirit_id
                        /\ a.event_type # None => events[e].event_type = Val(a.event_type)
                        /\ a.session_id # None => events[e].session_id = a.session_id
                        /\ a.min_importance # None =>
                              /\ events[e].importance_score # None
                              /\ Val(events[e].importance_score) >= Val(a.min_importance)
                        /\ ~a.include_deleted => ~events[e].is_deleted}
            IN  /\ Range(res) \subseteq E
                /\ Len(res) = WindowLen(Cardinality(E), a.limit, a.offset)

\* the requests that write a spirit row, and those that write an event row
SpiritWrites == {"update_spirit", "delete_spirit", "restore_spirit"}
EventWrites ==
    {"update_event", "update_importance", "update_meta_summary", "delete_event",
     "restore_event"}

(* C11: an update, soft delete or restore whose id names no spirit (no     *)
(* event) raises 404 before anything is added to the session, is rolled    *)
(* back, and no step of it creates or changes a row.                       *)
C11_MissingIdNotFound ==
    [][\A r \in DOMAIN req :
        ( /\ Moves(r)
          /\ \/ OpOf(r) \in SpiritWrites /\ TargetOf(r) \notin DOMAIN spirits
             \/ OpOf(r) \in EventWrites /\ TargetOf(r) \notin DOMAIN events )
        => /\ spirits' = spirits
           /\ events' = events
           /\ req[r].pc = "idle" =>
                 /\ req'[r].pc = "raised"
                 /\ req'[r].status = 404
                 /\ req'[r].write = NoWrite
           /\ req[r].pc # "idle" =>
                 /\ req[r].status = 404
                 /\ \/ Steps(r, "raised", "rolledback")
                    \/ Steps(r, "rolledback", "idle")
    ]_vars

\* an update of an event that does not exist was refused and rolled back
\* while other events exist
C11_Witness ==
    \E r \in DOMAIN req :
        /\ req[r].pc = "rolledback"
        /\ req[r].status = 404
        /\ req[r].op = "update_event"
        /\ DOMAIN req[r].data # {}
        /\ req[r].target \notin DOMAIN events
        /\ DOMAIN events # {}

\* the requests that carry a partial payload, and the table they write
PartialUpdates == {"update_spirit", "update_event"}
TableOf(op) == IF op \in SpiritWrites \cup {"create_spirit"} THEN "spirits" ELSE "events"

\* the column f of row holds the payload's value v
Holds(table, f, row, v) ==
    IF f \in NotNullOf(table) THEN v # None /\ row[f] = Val(v) ELSE row[f] = v

\* every row of table t but id is as it was, and so is the other table
OthersUnchanged(t, id) ==
    /\ DOMAIN Table(t)' = DOMAIN Table(t)
    /\ \A j \in DOMAIN Table(t) \ {id} : Table(t)'[j] = Table(t)[j]
    /\ t = "spirits" => events' = events
    /\ t = "events" => spirits' = spirits

\* the row id of t after the step holds the payload's fields and, in every
\* other column, what it held before
PayloadApplied(t, id, data) ==
    \A f \in DOMAIN Table(t)[id] :
        IF f \in DOMAIN data
        THEN Holds(t, f, Table(t)'[id], data[f])
        ELSE Table(t)'[id][f] = Table(t)[id][f]

Visible(w) ==
    IF w.kind = "insert"
    THEN /\ w.id \notin DOMAIN Table(w.table)
         /\ w.id \in DOMAIN Table(w.table)'
         /\ Table(w.table)'[w.id] = w.vals
    ELSE IF w.kind = "update"
    THEN \A f \in DOMAIN w.vals : Holds(w.table, f, Table(w.table)'[w.id], w.vals[f])
    ELSE spirits' = spirits /\ events' = events

(* C13: a request whose handler returned takes commit as its next step,    *)
(* and its write is in the tables from then on; a request whose handler    *)
(* raised (404, 400, an integrity error) takes rollback as its next step   *)
(* and never commits; the tables change at no step but a commit; the       *)
(* session is closed right after the commit or rollback and at no other    *)
(* point.                                                                  *)
C13_UnitOfWork ==
    [][\A r \in DOMAIN req :
        Moves(r) =>
          /\ req[r].pc = "returned" => req'[r].pc = "committed" /\ Visible(req[r].write)
          /\ req[r].pc = "raised" => req'[r].pc = "rolledback"
          /\ req'[r].pc = "committed" => req[r].pc = "returned" /\ req[r].status \in {200, 201, 204}
          /\ req'[r].pc = "rolledback" => req[r].status \in {400, 404, 409, 500}
          /\ req[r].pc \in {"committed", "rolledback"} => req'[r].pc = "idle"
          /\ req'[r].pc = "idle" => req[r].pc \in {"committed", "rolledback"}
          /\ req'[r].pc # "committed" => spirits' = spirits /\ events' = events
    ]_vars

\* one request has committed an insert while another, refused with 400,
\* has been rolled back
C13_Witness ==
    \E r, q \in DOMAIN req :
        /\ req[r].pc = "committed"
        /\ req[r].write.kind = "insert"
        /\ req[r].write.id \in DOMAIN Table(req[r].write.table)
        /\ req[q].pc = "rolledback"
        /\ req[q].status = 400

\* the flag a soft delete (a restore) leaves in is_deleted
FlagOf(op) == op \in {"delete_spirit", "delete_event"}

(* C14: no step removes a spirit id or an event id from the store; the     *)
(* commit of a soft delete leaves the target row as it was but for         *)
(* is_deleted = TRUE, the commit of a restore as it was but for            *)
(* is_deleted = FALSE, and neither changes another row.                    *)
C14_NoHardDelete ==
    [][/\ DOMAIN spirits \subseteq DOMAIN spirits'
       /\ DOMAIN events \subseteq DOMAIN events'
       /\ \A r \in DOMAIN req :
            LET t == TableOf(req[r].op)
                id == req[r].target
            IN  ( /\ Steps(r, "returned", "committed")
                  /\ req[r].op \in {"delete_spirit", "restore_spirit", "delete_event",
                                    "restore_event"} )
                => /\ Table(t)'[id] = [Table(t)[id] EXCEPT !.is_deleted = FlagOf(req[r].op)]
                   /\ OthersUnchanged(t, id)
    ]_vars

\* a soft delete of an event has committed: the row is there, flagged
C14_Witness ==
    \E r \in DOMAIN req :
        /\ req[r].op = "delete_event"
        /\ req[r].pc = "committed"
        /\ DOMAIN req[r].write.vals = {"is_deleted"}
        /\ req[r].target \in DOMAIN events
        /\ events[req[r].target].is_deleted
        /\ Cardinality(DOMAIN events) > 1

\* the characters of s in lower case
LowerAll(s) == [i \in DOMAIN s |-> Lower(s[i])]

\* q occurs in s, character for character
Contains(s, q) == \E i \in 0..(Len(s) - Len(q)) : SubSeq(s, i + 1, i + Len(q)) = q

(* C15: the list search_by_name(query, limit) returns holds spirits that   *)
(* are not soft-deleted and whose name, case aside, contains the query     *)
(* character for character; it holds min(limit, number of such spirits) of *)
(* them, each once, by name ascending.                                     *)
C15_SearchLiteralSubstring ==
    \A r \in DOMAIN req :
        (req[r].op = "search_spirits" /\ req[r].pc = "returned") =>
            LET res == req[r].result
                q == req[r].data.name
                M == {i \in DOMAIN spirits :
                        /\ ~spirits[i].is_deleted
                        /\ Contains(LowerAll(spirits[i].name), LowerAll(q))}
            IN  /\ Range(res) \subseteq M
                /\ Len(res) = WindowLen(Cardinality(M), req[r].data.limit, 0)
                /\ \A i, j \in 1..Len(res) :
                      i < j => /\ res[i] # res[j]
                               /\ ~NameBefore(spirits[res[j]].name, spirits[res[i]].name)

\* the columns of an event that no operation may change once it is stored
EventImmutables == {"spirit_id", "content", "occurred_at", "dedupe_key"}

(* C16: no step changes the id, spirit_id, content, occurred_at or         *)
(* dedupe_key of a stored event, whatever updates, update_meta_summary,    *)
(* update_importance, soft deletes and restores are applied to it.         *)
C16_EventImmutable ==
    [][\A e \in DOMAIN events :
        /\ e \in DOMAIN events'
        /\ \A f \in EventImmutables : events'[e][f] = events[e][f]
    ]_vars

\* an event whose occurred_at was defaulted and whose key was derived has
\* had its summary, its score and its flag written
C16_Witness ==
    \E e \in DOMAIN events :
        /\ events[e].occurred_at = events[e].created_at
        /\ events[e].occurred_at > 1
        /\ Derived(events[e].dedupe_key)
        /\ events[e].meta_summary # None
        /\ events[e].importance_score # None
        /\ events[e].is_deleted

(* C17: update, update_importance, update_meta_summary, soft_delete and    *)
(* restore of a stored event are never refused and commit what they write, *)
(* also when the event or its spirit is soft-deleted (an update whose      *)
(* payload gives null for is_deleted aside).                               *)
C17_LivenessCheckedAtCreateOnly ==
    [][\A r \in DOMAIN req :
        ( /\ Moves(r)
          /\ OpOf(r) \in EventWrites
          /\ TargetOf(r) \in DOMAIN events
          /\ DataOf(r) # [is_deleted |-> None] )
        => /\ req'[r].pc \notin {"raised", "rolledback"}
           /\ req'[r].pc = "committed" =>
                 /\ req[r].status = SuccessStatus(req[r].op)
                 /\ \A f \in DOMAIN req[r].data :
                       Holds("events", f, events'[req[r].target], req[r].data[f])
                 /\ req[r].op \in {"delete_event", "restore_event"} =>
                       events'[req[r].target].is_deleted = FlagOf(req[r].op)
    ]_vars

\* an update of a soft-deleted event of a soft-deleted spirit has committed
\* a new summary
C17_Witness ==
    \E r \in DOMAIN req :
        /\ req[r].op = "update_meta_summary"
        /\ req[r].pc = "committed"
        /\ DOMAIN req[r].write.vals = {"meta_summary"}
        /\ events[req[r].target].is_deleted
        /\ spirits[events[req[r].target].spirit_id].is_deleted
        /\ events[req[r].target].meta_summary = Some("m")

(* C18: the dedupe_key an accepted create stores is derived if and only if *)
(* the payload has a source_uri and no dedupe_key; a dedupe_key in the     *)
(* payload is stored as given; with neither in the payload the stored key  *)
(* is null.                                                                *)
C18_DerivationIff ==
    \A r \in DOMAIN req :
        (req[r].op = "create_event" /\ req[r].pc \in {"returned", "committed"}) =>
            LET d == req[r].data
                k == req[r].write.vals.dedupe_key
            IN  /\ Derived(k) <=> (d.source_uri # None /\ d.dedupe_key = None)
                /\ d.dedupe_key # None => k = d.dedupe_key
                /\ (d.source_uri = None /\ d.dedupe_key = None) => k = None

(* C19: an update of a stored row is never refused because another update *)
(* of the row is in flight, and when it commits the row holds the value of *)
(* every field of its payload (the later commit stands) and, in every      *)
(* other column, what the row held before (the fields another request set  *)
(* are kept).                                                              *)
C19_LastWriteWins ==
    [][\A r \in DOMAIN req :
        /\ ( /\ req[r].pc = "idle" /\ Moves(r)
             /\ req'[r].op = "update_event"
             /\ req'[r].target \in DOMAIN events )
           => req'[r].pc = "flush"
        /\ (req[r].op = "update_event" /\ req[r].pc \in {"flush", "returned"} /\ Moves(r)) =>
              /\ req'[r].pc \in {"returned", "committed"}
              /\ req'[r].pc = "committed" =>
                    PayloadApplied("events", req[r].target, req[r].data)
    ]_vars

(* C20 as claimed: when a create commits its event, the spirit the event   *)
(* belongs to is live.                                                     *)
C20_NoEventAfterSpiritDelete ==
    [][\A r \in DOMAIN req :
        (Steps(r, "returned", "committed") /\ req[r].op = "create_event") =>
            /\ req[r].write.vals.spirit_id \in DOMAIN spirits
            /\ ~spirits[req[r].write.vals.spirit_id].is_deleted
    ]_vars

(* C20 amended: the spirit an event belongs to is stored and live when the *)
(* create looks it up, before the insert is added to the session, and is   *)
(* still stored when the create commits; nothing looks at its flag again.  *)
C20_SpiritLiveWhenChecked ==
    [][\A r \in DOMAIN req :
        /\ (Steps(r, "idle", "flush") /\ req'[r].op = "create_event") =>
              /\ req'[r].data.spirit_id \in DOMAIN spirits
              /\ ~spirits[req'[r].data.spirit_id].is_deleted
        /\ (Steps(r, "returned", "committed") /\ req[r].op = "create_event") =>
              /\ req[r].write.vals.spirit_id \in DOMAIN spirits
              /\ req[r].write.id \in DOMAIN events'
    ]_vars

\* a create has committed an event of a spirit whose soft delete committed
\* while the create was in flight
C20_Witness ==
    \E r, q \in DOMAIN req :
        /\ req[r].op = "create_event"
        /\ req[r].pc = "committed"
        /\ req[r].write.id \in DOMAIN events
        /\ spirits[req[r].write.vals.spirit_id].is_deleted
        /\ req[q].op = "delete_spirit"
        /\ req[q].pc = "committed"
        /\ req[q].target = req[r].write.vals.spirit_id

====
